---- MODULE Spec2Model ----
(***************************************************************************)
(* Model of freecad-mcp-setup/index.js: the update and install             *)
(* orchestrator of the FreeCAD MCP package.                                *)
(*                                                                         *)
(* Strings whose bytes matter (version identifiers) are sequences of       *)
(* one-character strings.  JavaScript values that may be undefined or null *)
(* are records [type, val].  A file-system node is a record                *)
(* [kind |-> "absent"], [kind |-> "file", data] or [kind |-> "dir", items] *)
(* where items maps the names of the directory's entries to nodes.         *)
(***************************************************************************)
EXTENDS Integers, Sequences, FiniteSets, TLC

\* ------------------------------------------------------------------ bounds
\* longest version string (file content or tag) that is enumerated
MaxLen == 2
\* number of file-system operations a copy may perform before an injected
\* I/O error; a copy that needs fewer operations completes
MaxFsOps == 7
\* depth of the payload trees enumerated for the copyDirectory specification
TreeDepth == 2
\* calls of registerMCPServer in a row, one per run of the program
MaxRuns == 2
\* levels below the root at which the trees searched hold entries
MaxLevel == 4
\* entries of interest placed in a tree searched
MaxLeaves == 2
\* command-line arguments, in the specification of the dispatch
MaxArgs == 2

\* --------------------------------------------------------------- strings
Chars == {"a", " "}
Whitespace == {" "}

\* all strings over Chars of length at most n
StringsUpTo(n) == UNION {[1..k -> Chars] : k \in 0..n}

Strs == StringsUpTo(MaxLen)

\* the literal 'latest' (index.js:459)
LatestLiteral == <<"l", "a", "t", "e", "s", "t">>

RECURSIVE trimStart(_)
trimStart(s) ==
  IF s # <<>> /\ Head(s) \in Whitespace THEN trimStart(Tail(s)) ELSE s

RECURSIVE trimEnd(_)
trimEnd(s) ==
  IF s # <<>> /\ s[Len(s)] \in Whitespace
  THEN trimEnd(SubSeq(s, 1, Len(s) - 1)) ELSE s

\* String.prototype.trim
trim(s) == trimEnd(trimStart(s))

\* ------------------------------------------------------ JavaScript values
JsString(s) == [type |-> "string", val |-> s]
Undefined == [type |-> "undefined", val |-> <<>>]
Null == [type |-> "null", val |-> <<>>]

\* ToBoolean on the values above: undefined, null and '' are falsy
Truthy(v) == v.type = "string" /\ v.val # <<>>

\* ------------------------------------------------------------ file system
Absent == [kind |-> "absent"]
File(d) == [kind |-> "file", data |-> d]
Dir(f) == [kind |-> "dir", items |-> f]
EmptyDir == Dir(<<>>)

existsSync(node) == node.kind # "absent"
isDirectory(node) == node.kind = "dir"

\* the order in which a directory listing returns names
NameOrder == <<"AICopilot", "InitGui.py", "README.md", "aicopilot",
               "deep", "freecad-mcp-main", "legacy.py", "other",
               "repo.zip", "tools", "v1.2.0-archive">>

\* fs.readdirSync: the names of a directory's entries, in listing order
readdirSync(dir) == SelectSeq(NameOrder, LAMBDA n : n \in DOMAIN dir.items)

\* the node at a relative path below a directory node
RECURSIVE Lookup(_, _)
Lookup(node, p) ==
  IF p = <<>> THEN node
  ELSE IF isDirectory(node) /\ Head(p) \in DOMAIN node.items
       THEN Lookup(node.items[Head(p)], Tail(p))
       ELSE Absent

\* a directory with entry name set to node (added or replaced)
WithEntry(dir, name, node) ==
  Dir([n \in (DOMAIN dir.items) \cup {name} |->
         IF n = name THEN node ELSE dir.items[n]])

\* a directory without entry name
WithoutEntry(dir, name) ==
  Dir([n \in (DOMAIN dir.items) \ {name} |-> dir.items[n]])

\* ---------------------------------------------------------- copyDirectory
\* File-system operations are counted; the operation numbered failAt throws
\* an I/O error, and failAt = 0 injects no error.
Throws(done, failAt) == done + 1 = failAt

RECURSIVE copyDirectory(_, _, _, _)
RECURSIVE copyItems(_, _, _, _, _)

\* the loop over the source directory's items (index.js:369-379); acc is the
\* destination directory built so far
copyItems(src, items, acc, done, failAt) ==
  IF items = <<>> THEN [node |-> acc, done |-> done, threw |-> FALSE]
  ELSE LET item == Head(items)
           srcNode == src.items[item]
       IN IF isDirectory(srcNode)
          THEN LET sub == copyDirectory(srcNode, Lookup(acc, <<item>>),
                                        done, failAt)
                   acc2 == IF existsSync(sub.node)
                           THEN WithEntry(acc, item, sub.node)
                           ELSE IF item \in DOMAIN acc.items
                                THEN WithoutEntry(acc, item) ELSE acc
               IN IF sub.threw
                  THEN [node |-> acc2, done |-> sub.done, threw |-> TRUE]
                  ELSE copyItems(src, Tail(items), acc2, sub.done, failAt)
          ELSE IF Throws(done, failAt)
               THEN [node |-> acc, done |-> done, threw |-> TRUE]
               ELSE copyItems(src, Tail(items),
                              WithEntry(acc, item, srcNode), done + 1, failAt)

\* copyDirectory without the removal of an existing destination: the items
\* are copied over whatever the destination already holds
copyDirectoryKeepDest(src, dest, done, failAt) ==
  IF existsSync(dest) /\ isDirectory(dest)
  THEN copyItems(src, readdirSync(src), dest, done, failAt)
  ELSE IF Throws(done, failAt)
       THEN [node |-> Absent, done |-> done, threw |-> TRUE]
       ELSE copyItems(src, readdirSync(src), EmptyDir, done + 1, failAt)

\* copyDirectory(src, dest) (index.js:361-380): dest is the node now at the
\* destination path; the result holds the node left there, the count of
\* operations performed and whether an error was thrown
copyDirectory(src, dest, done, failAt) ==
  LET rmNeeded == existsSync(dest)
      d1 == IF rmNeeded THEN done + 1 ELSE done
  IN IF rmNeeded /\ Throws(done, failAt)
     THEN [node |-> dest, done |-> done, threw |-> TRUE]
     ELSE IF Throws(d1, failAt)
          THEN [node |-> Absent, done |-> d1, threw |-> TRUE]
          ELSE copyItems(src, readdirSync(src), EmptyDir, d1 + 1, failAt)

\* -------------------------------------------------------- findAICopilotDir
\* the expected package folder name (index.js:312)
PackageName == "AICopilot"

\* the recursion is entered only while depth is below this (index.js:318)
SearchDepthLimit == 2

NotFound == [found |-> FALSE, path |-> <<>>]
FoundAt(p) == [found |-> TRUE, path |-> p]

RECURSIVE searchRecursively(_, _, _)
RECURSIVE searchItems(_, _, _, _)

\* the loop over a directory's items (index.js:307-323)
searchItems(dir, dirPath, depth, items) ==
  IF items = <<>> THEN NotFound
  ELSE LET item == Head(items)
           itemPath == Append(dirPath, item)
           node == dir.items[item]
       IN IF isDirectory(node)
          THEN IF item = PackageName THEN FoundAt(itemPath)
               ELSE LET found == IF depth < SearchDepthLimit
                                 THEN searchRecursively(node, itemPath,
                                                        depth + 1)
                                 ELSE NotFound
                    IN IF found.found THEN found
                       ELSE searchItems(dir, dirPath, depth, Tail(items))
          ELSE searchItems(dir, dirPath, depth, Tail(items))

\* searchRecursively(dir, depth) (index.js:302-329); dirPath is dir's path
\* relative to the search root
searchRecursively(dir, dirPath, depth) ==
  searchItems(dir, dirPath, depth, readdirSync(dir))

\* the package directory searched for at the root of the temp directory
\* only, with the temp directory itself as the fallback
findAICopilotDirOrRoot(tempDirNode) ==
  IF isDirectory(Lookup(tempDirNode, <<PackageName>>))
  THEN FoundAt(<<PackageName>>) ELSE FoundAt(<<>>)

\* the search allowed one level further down
findAICopilotDirDeeper(tempDirNode) ==
  searchRecursively(tempDirNode, <<>>, -1)

\* the match nearest to the root, whatever the order of the entries
findAICopilotDirNearest(tempDirNode) ==
  LET RECURSIVE Dirs(_, _)
      Dirs(dir, n) ==
        IF n = 0 THEN {}
        ELSE UNION {IF isDirectory(dir.items[e])
                    THEN {<<e>>} \cup {<<e>> \o q :
                                         q \in Dirs(dir.items[e], n - 1)}
                    ELSE {} : e \in DOMAIN dir.items}
      ms == {q \in Dirs(tempDirNode, SearchDepthLimit + 1) :
               q[Len(q)] = PackageName}
  IN IF ms = {} THEN NotFound
     ELSE FoundAt(CHOOSE q \in ms : \A r \in ms : Len(q) <= Len(r))

\* the search started one level short: the root's entries and their
\* children only
findAICopilotDirShallow(tempDirNode) ==
  searchRecursively(tempDirNode, <<>>, 1)

\* findAICopilotDir(tempDir) (index.js:301-332)
findAICopilotDir(tempDir) == searchRecursively(tempDir, <<>>, 0)

\* --------------------------------------------------------- command line
\* the argument vectors (process.argv.slice(2)) a run may be started with
ArgvChoices == {<<>>, <<"setup", "--update">>, <<"--update">>, <<"--help">>,
                <<"setup", "-h">>, <<"bogus">>}

\* Array.prototype.includes
includes(args, x) == \E i \in 1..Len(args) : args[i] = x

\* the help flag honoured as the first argument only
mainHelpFirstOnly(args) ==
  IF Len(args) > 0 /\ args[1] \in {"--help", "-h"} THEN "help"
  ELSE IF Len(args) = 0 \/ args[1] = "setup" THEN "install"
  ELSE "unknown"

\* main() (index.js:485-510): which branch the arguments select
main(args) ==
  IF includes(args, "--help") \/ includes(args, "-h") THEN "help"
  ELSE IF Len(args) = 0 \/ args[1] = "setup" THEN "install"
  ELSE "unknown"

\* ------------------------------------------------------------- platform
\* values of os.platform() the runs are started on (darwin differs from
\* linux only in the probe checkFreeCadInstallation uses)
Platforms == {"linux", "win32", "freebsd"}

\* getFreeCadModDir() (index.js:42-56) throws on any other platform
SupportedPlatforms == {"darwin", "linux", "win32"}

\* what the host-detection probes would answer on this machine
HostEnvs == [appExists : BOOLEAN, whichOk : BOOLEAN, commonPath : BOOLEAN,
             whereOk : BOOLEAN, versionOk : BOOLEAN]

\* checkFreeCadInstallation() (index.js:59-101).  On win32 the array of
\* common paths evaluates path.join(home, ...) with home not declared in
\* this function: the ReferenceError is caught by the outer try and the
\* function returns false before any probe runs.
checkFreeCadInstallation(plat, env) ==
  IF plat = "darwin" THEN env.appExists
  ELSE IF plat = "linux" THEN env.whichOk
  ELSE IF plat = "win32" THEN FALSE
  ELSE FALSE

\* ------------------------------------------------------------ VersionStore
NoFile == [exists |-> FALSE, content |-> <<>>]
VersionFileWith(s) == [exists |-> TRUE, content |-> s]

\* the read without its try/catch: the exception of readFileSync leaves
\* the function
getCurrentVersionUnguarded(vf, readFails) ==
  IF ~vf.exists THEN Null
  ELSE IF readFails THEN [type |-> "thrown", val |-> <<>>]
  ELSE JsString(trim(vf.content))

\* getCurrentVersion() (index.js:127-136); readFails: readFileSync throws
getCurrentVersion(vf, readFails) ==
  IF vf.exists /\ ~readFails THEN JsString(trim(vf.content)) ELSE Null

\* saveCurrentVersion(version) (index.js:139-145); writeFails: writeFileSync
\* throws, which is caught and only logged
saveCurrentVersion(vf, version, writeFails) ==
  IF writeFails THEN vf ELSE VersionFileWith(version)

\* --------------------------------------------------------- ReleaseResolver
\* tag names: a git ref name is not empty and holds no whitespace
TagStrings ==
  {s \in Strs : s # <<>> /\ \A i \in 1..Len(s) : s[i] \notin Whitespace}
  \cup {LatestLiteral}

\* tag_name values the release index may answer with: a tag, or no such
\* field (as in an API error body)
TagChoices == {JsString(s) : s \in TagStrings} \cup {Undefined}

\* body values the release index may answer with
BodyChoices == {Undefined, JsString(<<"n">>)}

Release(tag, body) == [type |-> "object", tag_name |-> tag, body |-> body]

\* outcomes of fetchLatestRelease() (index.js:104-124): a request error, a
\* body JSON.parse rejects, the JSON value null, or a JSON object
ResolverOutcomes ==
  {[kind |-> "requestError", value |-> Null],
   [kind |-> "parseError", value |-> Null],
   [kind |-> "parsed", value |-> Null]}
  \cup {[kind |-> "parsed", value |-> Release(t, b)] :
          t \in TagChoices, b \in BodyChoices}

Msg(m, a) == [msg |-> m, arg |-> a]

NoNotes == JsString(<<"No release notes available">>)

\* the absence test taken as a comparison with null only
localAbsentNullOnly(currentVersion) == currentVersion = Null

\* !currentVersion (index.js:156): null and the empty string are absent
localAbsent(currentVersion) == ~Truthy(currentVersion)

\* the equality test made to yield to the --update flag
upToDateUnlessForced(latestVersion, currentVersion, args) ==
  latestVersion = currentVersion /\ ~includes(args, "--update")

\* latestVersion === currentVersion (index.js:161); args is not consulted
upToDate(latestVersion, currentVersion, args) ==
  latestVersion = currentVersion

\* the update applied whenever the versions differ
updateAlways(args) == TRUE

\* process.argv.includes('--update') (index.js:175)
updateRequested(args) == includes(args, "--update")

\* the catch block made to give up instead of proceeding
resolverFailureGivesUp ==
  [shouldUpdate |-> FALSE, release |-> Undefined, threw |-> TRUE,
   msgs |-> {Msg("checking", Undefined), Msg("couldNotCheck", Undefined)}]

\* the catch block of checkForUpdates (index.js:181-185)
resolverFailure ==
  [shouldUpdate |-> TRUE, release |-> Null, threw |-> TRUE,
   msgs |-> {Msg("checking", Undefined), Msg("couldNotCheck", Undefined),
             Msg("proceeding", Undefined)}]

\* checkForUpdates() (index.js:148-186), given the outcome of
\* fetchLatestRelease, the value of getCurrentVersion and process.argv.
\* threw records that the catch block was taken: fetchLatestRelease
\* rejected, or release.tag_name was read from null.
checkForUpdates(outcome, currentVersion, args) ==
  IF outcome.kind # "parsed" \/ outcome.value = Null
  THEN resolverFailure
  ELSE LET release == outcome.value
           latestVersion == release.tag_name
       IN IF localAbsent(currentVersion)
          THEN [shouldUpdate |-> TRUE, release |-> release, threw |-> FALSE,
                msgs |-> {Msg("checking", Undefined),
                          Msg("installing", latestVersion)}]
          ELSE IF upToDate(latestVersion, currentVersion, args)
          THEN [shouldUpdate |-> FALSE, release |-> Undefined,
                threw |-> FALSE,
                msgs |-> {Msg("checking", Undefined),
                          Msg("upToDate", currentVersion)}]
          ELSE [shouldUpdate |-> updateRequested(args),
                release |-> IF updateRequested(args)
                            THEN release ELSE Undefined,
                threw |-> FALSE,
                msgs |-> {Msg("checking", Undefined),
                          Msg("newVersion", latestVersion),
                          Msg("releaseNotes",
                              IF Truthy(release.body) THEN release.body
                              ELSE NoNotes),
                          Msg("howToUpdate", Undefined)}]

\* the part of checkForUpdates' release that install() reads afterwards
\* (index.js:456-457): whether it is an object, and its tag_name
liveFields(rel) ==
  IF rel.type = "object" THEN [type |-> "object", tag_name |-> rel.tag_name]
  ELSE rel

\* ------------------------------------------------------------- downloads
\* an HTTP exchange as the client sees it: a transport error before any
\* response, or a response with a status whose body stream either completes,
\* is aborted by the peer, or cannot be written to the local file
HttpOutcomes ==
  {[error |-> TRUE, status |-> 0, stream |-> "none"]}
  \cup [error : {FALSE}, status : {200, 301, 302, 404},
        stream : {"complete", "aborted", "writeError"}]

\* the body a response of this status carries
bodyOf(status) == IF status = 200 THEN "content" ELSE "errorpage"

\* what happens to the promise once the response r is piped to the file
\* (index.js:250-254, 257-261 and 343-347, 350-354): it resolves on the
\* file's 'finish' event; an aborted response never finishes the file and nothing
\* listens for it, so the promise stays pending; an 'error' event of the
\* write stream has no listener and is thrown as an uncaught exception
pipeToFile(r, requests) ==
  IF r.stream = "complete"
  THEN [settled |-> "finished", file |-> File(bodyOf(r.status)),
        requests |-> requests]
  ELSE IF r.stream = "aborted"
       THEN [settled |-> "pending", file |-> File("partial"),
             requests |-> requests]
       ELSE [settled |-> "uncaught", file |-> File("partial"),
             requests |-> requests]

\* a client that follows a second redirect with a third request, which is
\* answered in full
followRedirectAgain(r2) ==
  IF r2.error THEN [settled |-> "rejected", file |-> File(""), requests |-> 2]
  ELSE IF r2.status = 302 \/ r2.status = 301
  THEN [settled |-> "finished", file |-> File("content"), requests |-> 3]
  ELSE pipeToFile(r2, 2)

\* the handling of the second response (index.js:249-255, 342-348): it is
\* piped whatever its status
followRedirect(r2) ==
  IF r2.error THEN [settled |-> "rejected", file |-> File(""), requests |-> 2]
  ELSE pipeToFile(r2, 2)

\* the request/redirect/pipe structure shared by downloadAndExtractRepo
\* (index.js:245-263) and downloadFile (index.js:337-356): r1 answers the
\* first request and r2 the request to the Location target, if one is made.
\* createWriteStream has created the file before any response arrives.
download(r1, r2) ==
  IF r1.error THEN [settled |-> "rejected", file |-> File(""), requests |-> 1]
  ELSE IF r1.status = 302 \/ r1.status = 301 THEN followRedirect(r2)
  ELSE pipeToFile(r1, 1)

\* what a download can come to, over every answer to its requests
DownloadResults ==
  {download(r1, r2) : r1 \in HttpOutcomes, r2 \in HttpOutcomes}

\* ------------------------------------------------------- trees considered
\* the payload: the contents of the package directory inside an archive
PayloadA == Dir("InitGui.py" :> File("new") @@
                "tools" :> Dir("InitGui.py" :> File("new")))

\* contents of the archives the archive host may serve
ArchiveChoices ==
  { \* GitHub layout: wrapper directory, package at level 2
    Dir("freecad-mcp-main" :> Dir("AICopilot" :> PayloadA @@
                                  "README.md" :> File("doc"))),
    \* package at level 1
    Dir("AICopilot" :> PayloadA @@ "README.md" :> File("doc")),
    \* package under two wrappers, at level 3
    Dir("freecad-mcp-main" :> Dir("v1.2.0-archive" :>
                                  Dir("AICopilot" :> PayloadA))),
    \* package under three wrappers, at level 4
    Dir("deep" :> Dir("freecad-mcp-main" :> Dir("v1.2.0-archive" :>
                                  Dir("AICopilot" :> PayloadA)))),
    \* no package directory
    Dir("freecad-mcp-main" :> Dir("README.md" :> File("doc"))),
    \* a regular file of the package name and a directory differing in case
    Dir("AICopilot" :> File("doc") @@ "aicopilot" :> PayloadA),
    \* empty archive
    EmptyDir }

\* a previously installed package, with a file the new payloads do not have
OldInstall == Dir("InitGui.py" :> File("old") @@ "legacy.py" :> File("old"))

InstallChoices == {Absent, OldInstall}

\* all directory trees of depth at most d over two names
GenNames == {"InitGui.py", "tools"}

RECURSIVE GenDirs(_)
GenDirs(d) ==
  IF d = 0 THEN {EmptyDir}
  ELSE {Dir(f) : f \in UNION {[S -> {File("new")} \cup GenDirs(d - 1)] :
                                S \in SUBSET GenNames}}

\* destinations the copyDirectory specification starts from
DestChoices ==
  {Absent, EmptyDir, OldInstall,
   Dir("tools" :> File("old") @@
       "InitGui.py" :> Dir("legacy.py" :> File("old")))}

\* the paths of the directories at most maxLevel levels below a directory
RECURSIVE DirPaths(_, _)
DirPaths(dir, maxLevel) ==
  IF maxLevel = 0 THEN {}
  ELSE UNION {IF isDirectory(dir.items[n])
              THEN {<<n>>} \cup {<<n>> \o q :
                                   q \in DirPaths(dir.items[n], maxLevel - 1)}
              ELSE {} : n \in DOMAIN dir.items}

\* ------------------------------------------------------------------ state
VARIABLES
  argv,            \* process.argv.slice(2) of the current run
  platform,        \* os.platform()
  pc,              \* position of the current run
  exitCode,        \* process exit status, -1 while the run is going
  outcome,         \* how the run ended
  reported,        \* messages logged by the current run
  stages,          \* pipeline stages started by the current run, in order
  pipelineEntered, \* calls of downloadAndInstall in the current run
  archiveRequests, \* HTTP requests for the archive in the current run
  archiveLocator,  \* what the archive request of the current run asks for
  failedStage,     \* the stage whose failure ended the run, or "none"
  seen,            \* what checkForUpdates saw: resolver result and versions
  shouldUpdate,    \* result of checkForUpdates
  release,         \* result of checkForUpdates
  versionWrite,    \* "none", "ok" or "failed": saveCurrentVersion this run
  registered,      \* result of registerMCPServer
  bridgeRequests,  \* HTTP requests for the bridge artifact
  addCalls,        \* invocations of 'claude mcp add' in the current run
  versionFile,     \* VersionStore: ~/.freecad-mcp-version
  installDir,      \* InstallDirectory: <Mod>/AICopilot
  tempDir,         \* <tmp>/freecad-mcp-temp
  bridgeFile,      \* ~/.freecad-mcp/working_bridge.py
  preVersion,      \* versionFile when the current run started
  preInstall,      \* installDir when the current run started
  runs,            \* runs of the program started so far
  cpSrc, cpDest, cpOut, cpThrew, cpPhase, \* copyDirectory specification
  dlFirst, dlSecond, dlOut, dlPhase,      \* download specification
  locTree, locOut, locPhase,              \* findAICopilotDir specification
  ccPc,            \* position of each of the runs sharing the temp directory
  ccTemp,          \* <tmp>/freecad-mcp-temp as those runs share it
  ccFrom,          \* whose extraction made the tree each run installed
  ccFail,          \* the step at which each of those runs failed, or "none"
  ccOverlap,       \* one of those runs began while another was going
  hostEnv, hostOut, hostPhase  \* checkFreeCadInstallation specification

fsVars == <<versionFile, installDir, tempDir, bridgeFile>>
cpVars == <<cpSrc, cpDest, cpOut, cpThrew, cpPhase>>
dlVars == <<dlFirst, dlSecond, dlOut, dlPhase>>
locVars == <<locTree, locOut, locPhase>>
ccVars == <<ccPc, ccTemp, ccFrom, ccFail, ccOverlap>>
hostVars == <<hostEnv, hostOut, hostPhase>>
fnVars == <<cpVars, dlVars, locVars, ccVars, hostVars>>
envVars == <<argv, platform, preVersion, preInstall, runs>>
histVars == <<stages, pipelineEntered, archiveRequests, failedStage, seen,
              versionWrite, bridgeRequests, addCalls>>
resultVars == <<shouldUpdate, release, registered>>
ctlVars == <<pc, exitCode, outcome, reported>>

vars == <<archiveLocator,
          argv, platform, pc, exitCode, outcome, reported, stages,
          pipelineEntered, archiveRequests, failedStage, seen, shouldUpdate,
          release, versionWrite, registered, bridgeRequests, addCalls,
          versionFile, installDir, tempDir, bridgeFile, preVersion,
          preInstall, runs, cpSrc, cpDest, cpOut, cpThrew, cpPhase,
          dlFirst, dlSecond, dlOut, dlPhase, locTree, locOut, locPhase,
          ccPc, ccTemp, ccFrom, ccFail, ccOverlap,
          hostEnv, hostOut, hostPhase>>

NotSeen == [resolved |-> FALSE, checked |-> FALSE, latest |-> Undefined,
            current |-> Undefined]

\* no archive was asked for
NoLocator == [kind |-> "none", name |-> <<>>]

\* the per-run part of the state at the start of a run
RunStart ==
  /\ pc = "main" /\ exitCode = -1 /\ outcome = "running"
  /\ reported = {} /\ stages = <<>> /\ pipelineEntered = 0
  /\ archiveRequests = 0 /\ failedStage = "none" /\ seen = NotSeen
  /\ shouldUpdate = FALSE /\ release = Undefined /\ versionWrite = "none"
  /\ registered = FALSE /\ addCalls = <<>>
  /\ archiveLocator = NoLocator

NoResponse == [error |-> TRUE, status |-> 0, stream |-> "none"]

NoDownload == [settled |-> "none", file |-> Absent, requests |-> 0]

DownloadIdle ==
  /\ dlFirst = NoResponse /\ dlSecond = NoResponse
  /\ dlOut = NoDownload /\ dlPhase = 0

LocateIdle == locTree = EmptyDir /\ locOut = NotFound /\ locPhase = 0

\* the runs that may share the temp directory
Runs == 1..MaxRuns

\* no archive file at <temp>/repo.zip
NoZip == [at |-> FALSE, fds |-> {}, full |-> FALSE]

\* the temp directory does not exist
NoTemp == [exists |-> FALSE, zip |-> NoZip, tree |-> {}]

ConcurrentIdle ==
  /\ ccPc = [r \in Runs |-> "idle"] /\ ccTemp = NoTemp
  /\ ccFrom = [r \in Runs |-> {}] /\ ccFail = [r \in Runs |-> "none"]
  /\ ccOverlap = FALSE

\* no probe answers anything
NoHost == [appExists |-> FALSE, whichOk |-> FALSE, commonPath |-> FALSE,
           whereOk |-> FALSE, versionOk |-> FALSE]

HostIdle == hostEnv = NoHost /\ hostOut = FALSE /\ hostPhase = 0

CopyIdle ==
  /\ cpSrc = EmptyDir /\ cpDest = Absent /\ cpOut = Absent
  /\ cpThrew = FALSE /\ cpPhase = 0

Init ==
  /\ argv \in ArgvChoices
  /\ platform \in Platforms
  /\ versionFile \in {NoFile} \cup {VersionFileWith(s) : s \in Strs}
  /\ installDir \in InstallChoices
  /\ tempDir = Absent
  /\ bridgeFile \in {Absent, File("content")}
  /\ bridgeRequests = 0
  /\ preVersion = versionFile /\ preInstall = installDir
  /\ runs = 1
  /\ RunStart
  /\ CopyIdle
  /\ ConcurrentIdle
  /\ HostIdle
  /\ DownloadIdle
  /\ LocateIdle

\* the run ends: process.exit(code), or the event loop runs empty
Exit(code, how, stage, msgs) ==
  /\ pc' = "exited" /\ exitCode' = code /\ outcome' = how
  /\ failedStage' = stage
  /\ reported' = reported \cup msgs

\* the catch block of install() (index.js:478-481), reached by an exception
\* of downloadAndInstall, which has logged it too (index.js:231-234)
FailFatal(stage) ==
  Exit(1, "FailedFatal", stage,
       {Msg("installationFailed", Undefined)})

\* main() (index.js:485-510)
Main ==
  /\ pc = "main"
  /\ LET branch == main(argv)
     IN IF branch = "help"
        THEN Exit(0, "Help", "none", {Msg("usage", Undefined)})
        ELSE IF branch = "install"
        THEN /\ pc' = "checkPrereqs"
             /\ reported' = reported \cup {Msg("setup", Undefined)}
             /\ UNCHANGED <<exitCode, outcome, failedStage>>
        ELSE Exit(1, "UnknownCommand", "none",
                  {Msg("unknownCommand", Undefined)})
  /\ UNCHANGED <<fsVars, fnVars, archiveLocator, envVars, resultVars, stages,
                 pipelineEntered, archiveRequests, seen, versionWrite,
                 bridgeRequests, addCalls>>

\* the run stopped when the host is not detected
afterPrereqsBlocking(detected) ==
  IF detected THEN "checkForUpdates" ELSE "exited"

\* where install() goes after the host check (index.js:442-450): on to
\* checkForUpdates, whatever the check returned
afterPrereqs(detected) == "checkForUpdates"

\* install(), the host check (index.js:440-447)
CheckPrereqs ==
  /\ pc = "checkPrereqs"
  /\ \E env \in HostEnvs :
       LET detected == checkFreeCadInstallation(platform, env)
       IN /\ reported' = reported \cup
               {IF detected THEN Msg("freecadFound", Undefined)
                ELSE Msg("freecadNotDetected", Undefined)}
          /\ pc' = afterPrereqs(detected)
  /\ UNCHANGED <<fsVars, fnVars, archiveLocator, envVars, resultVars,
                 histVars, exitCode,
                 outcome>>

\* install(), the call of checkForUpdates (index.js:450) and the branch on
\* its result (index.js:452)
CheckForUpdates ==
  /\ pc = "checkForUpdates"
  /\ \E resolver \in ResolverOutcomes, readFails \in BOOLEAN :
       LET current == getCurrentVersion(versionFile, readFails)
           r == checkForUpdates(resolver, current, argv)
       IN /\ shouldUpdate' = r.shouldUpdate
          /\ release' = liveFields(r.release)
          /\ reported' = reported \cup r.msgs
          /\ seen' = [resolved |-> ~r.threw, checked |-> TRUE,
                      latest |-> IF r.threw THEN Undefined
                                 ELSE resolver.value.tag_name,
                      current |-> current]
          /\ pc' = IF r.shouldUpdate THEN "downloadAndInstall" ELSE "register"
  /\ UNCHANGED <<fsVars, fnVars, archiveLocator, envVars, registered, stages,
                 pipelineEntered, archiveRequests, failedStage, versionWrite,
                 bridgeRequests, addCalls, exitCode, outcome>>

\* the placeholder recorded whatever the release
versionToSavePlaceholder(rel) == LatestLiteral

\* the version install() records after downloadAndInstall (index.js:456-460)
versionToSave(rel) ==
  IF rel.type = "object" /\ Truthy(rel.tag_name)
  THEN rel.tag_name.val ELSE LatestLiteral

\* zip.extractAllTo(extractDir, true) followed by the removal of the archive
\* file (index.js:284-290)
extractAllTo(archive, dir) ==
  Dir([n \in ((DOMAIN archive.items) \cup (DOMAIN dir.items)) \ {"repo.zip"}
         |-> IF n \in DOMAIN archive.items THEN archive.items[n]
             ELSE dir.items[n]])

\* zipUrl (index.js:240): the archive of the head of the main branch,
\* whatever release was resolved
zipUrl(rel) == [kind |-> "branch", name |-> <<"m", "a", "i", "n">>]

\* downloadAndInstall(), up to the archive request (index.js:189-206 and
\* 238-246): getFreeCadModDir throws on an unsupported platform; the temp
\* directory is emptied and the archive file is opened for writing
DownloadAndInstallBegin ==
  /\ pc = "downloadAndInstall"
  /\ pipelineEntered' = pipelineEntered + 1
  /\ IF platform \notin SupportedPlatforms
     THEN /\ FailFatal("platform")
          /\ UNCHANGED <<tempDir, stages, archiveLocator>>
     ELSE /\ tempDir' = Dir("repo.zip" :> File(""))
          /\ archiveLocator' = zipUrl(release)
          /\ stages' = Append(stages, "fetch")
          /\ pc' = "fetch"
          /\ reported' = reported \cup {Msg("installingTo", Undefined),
                                        Msg("downloading", Undefined)}
          /\ UNCHANGED <<exitCode, outcome, failedStage>>
  /\ UNCHANGED <<versionFile, installDir, bridgeFile, fnVars, envVars,
                 resultVars, archiveRequests, seen, versionWrite,
                 bridgeRequests, addCalls>>

\* downloadAndExtractRepo(), the responses to the archive request
\* (index.js:246-263)
FetchArchive ==
  /\ pc = "fetch"
  /\ \E d \in DownloadResults :
       /\ archiveRequests' = d.requests
       /\ tempDir' = WithEntry(tempDir, "repo.zip", d.file)
       /\ IF d.settled = "finished"
          THEN /\ pc' = "extract"
               /\ UNCHANGED <<exitCode, outcome, failedStage, reported>>
          ELSE IF d.settled = "rejected" THEN FailFatal("fetch")
          ELSE IF d.settled = "pending"
          THEN Exit(0, "Hung", "fetch", {})
          ELSE Exit(1, "Crashed", "fetch", {})
  /\ UNCHANGED <<versionFile, installDir, bridgeFile, fnVars, archiveLocator,
                 envVars,
                 resultVars, stages, pipelineEntered, seen, versionWrite,
                 bridgeRequests, addCalls>>

\* extractZip(zipPath, extractDir) (index.js:268-298), called when the
\* archive file has been written; a file that is not an archive makes
\* AdmZip throw, and so may any I/O error
ExtractZip ==
  /\ pc = "extract"
  /\ stages' = Append(stages, "extract")
  /\ \E archive \in ArchiveChoices, ioFails \in BOOLEAN :
       IF Lookup(tempDir, <<"repo.zip">>) = File("content") /\ ~ioFails
       THEN /\ tempDir' = extractAllTo(archive, tempDir)
            /\ pc' = "locate"
            /\ reported' = reported \cup {Msg("extracted", Undefined)}
            /\ UNCHANGED <<exitCode, outcome, failedStage>>
       ELSE /\ FailFatal("extract")
            /\ UNCHANGED tempDir
  /\ UNCHANGED <<versionFile, installDir, bridgeFile, fnVars, archiveLocator,
                 envVars,
                 resultVars, pipelineEntered, archiveRequests, seen,
                 versionWrite, bridgeRequests, addCalls>>

\* the existing installation removed before the package directory is
\* looked for
installPayloadRemoveFirst(temp, target, failAt) ==
  LET extractedDir == findAICopilotDir(temp)
  IN IF ~extractedDir.found
     THEN [failed |-> "locate", installDir |-> Absent, tempDir |-> temp]
     ELSE LET cp == copyDirectory(Lookup(temp, extractedDir.path), Absent,
                                  1, failAt)
          IN IF cp.threw
             THEN [failed |-> "install", installDir |-> cp.node,
                   tempDir |-> temp]
             ELSE [failed |-> "none", installDir |-> cp.node,
                   tempDir |-> Absent]

\* downloadAndInstall() after the extraction, as a function (index.js:
\* 208-227): locate the package directory, create the Mod directory, copy,
\* remove the temp directory.  The operation numbered failAt throws (1: mkdir
\* of the Mod directory, then the operations of copyDirectory, then the
\* removal of the temp directory).  failed names the step that threw.
installPayload(temp, target, failAt) ==
  LET extractedDir == findAICopilotDir(temp)
  IN IF ~extractedDir.found
     THEN [failed |-> "locate", installDir |-> target, tempDir |-> temp]
     ELSE IF Throws(0, failAt)
     THEN [failed |-> "install", installDir |-> target, tempDir |-> temp]
     ELSE LET cp == copyDirectory(Lookup(temp, extractedDir.path), target,
                                  1, failAt)
          IN IF cp.threw
             THEN [failed |-> "install", installDir |-> cp.node,
                   tempDir |-> temp]
             ELSE IF Throws(cp.done, failAt)
             THEN [failed |-> "cleanup", installDir |-> cp.node,
                   tempDir |-> temp]
             ELSE [failed |-> "none", installDir |-> cp.node,
                   tempDir |-> Absent]

\* a path as it appears in a logged message
PathValue(p) == [type |-> "path", val |-> p]

\* what findAICopilotDir logs on its way (index.js:313): the path of the
\* package directory it returns
foundMsgs(temp) ==
  LET extractedDir == findAICopilotDir(temp)
  IN IF extractedDir.found
     THEN {Msg("foundAt", PathValue(extractedDir.path))} ELSE {}

\* downloadAndInstall(), after the extraction (index.js:208-234)
LocateAndInstall ==
  /\ pc = "locate"
  /\ \E failAt \in 0..MaxFsOps :
       LET r == installPayload(tempDir, installDir, failAt)
       IN /\ installDir' = r.installDir
          /\ tempDir' = r.tempDir
          /\ stages' = IF r.failed = "locate" THEN Append(stages, "locate")
                       ELSE stages \o <<"locate", "install">>
          /\ IF r.failed = "none"
             THEN /\ pc' = "saveVersion"
                  /\ reported' = reported \cup foundMsgs(tempDir)
                                  \cup {Msg("installed", Undefined)}
                  /\ UNCHANGED <<exitCode, outcome, failedStage>>
             ELSE Exit(1, "FailedFatal", r.failed,
                       foundMsgs(tempDir)
                       \cup {Msg("installationFailed", Undefined)})
  /\ UNCHANGED <<versionFile, bridgeFile, fnVars, archiveLocator, envVars,
                 resultVars,
                 pipelineEntered, archiveRequests, seen, versionWrite,
                 bridgeRequests, addCalls>>

\* install(), after downloadAndInstall has returned (index.js:456-460)
SaveVersion ==
  /\ pc = "saveVersion"
  /\ \E writeFails \in BOOLEAN :
       /\ versionFile' = saveCurrentVersion(versionFile,
                                            versionToSave(release), writeFails)
       /\ versionWrite' = IF writeFails THEN "failed" ELSE "ok"
       /\ reported' = reported \cup
            (IF writeFails THEN {Msg("couldNotSaveVersion", Undefined)}
             ELSE {})
  /\ pc' = "register"
  /\ UNCHANGED <<installDir, tempDir, bridgeFile, fnVars, archiveLocator,
                 envVars,
                 resultVars, stages, pipelineEntered, archiveRequests,
                 failedStage, seen, bridgeRequests, addCalls, exitCode,
                 outcome>>

\* 'python3' on every platform
pythonCmdEverywhere3(plat) == "python3"

\* the interpreter named in the registration command (index.js:411)
pythonCmd(plat) == IF plat = "win32" THEN "python" ELSE "python3"

\* the bridge artifact requested on every registration
bridgeMissingAlways(bridge) == TRUE

\* !fs.existsSync(bridgePath) (index.js:401)
bridgeMissing(bridge) == ~existsSync(bridge)

\* the probe's result not acted upon
registerStartIgnoringProbe(cliPresent, bridge) ==
  IF bridgeMissing(bridge) THEN "bridgeDownload" ELSE "registerAdd"

\* where registerMCPServer goes after the probe of the CLI (index.js:
\* 387-408): it returns false when the probe fails, else downloads the bridge
\* artifact if it is missing, else goes on to the registration command
registerStart(cliPresent, bridge) ==
  IF ~cliPresent THEN "finish"
  ELSE IF bridgeMissing(bridge) THEN "bridgeDownload" ELSE "registerAdd"

\* registerMCPServer(), up to the bridge download (index.js:383-408): probe
\* the CLI, then request the bridge artifact unless the file exists
RegisterBegin ==
  /\ pc = "register"
  /\ \E cliPresent \in BOOLEAN :
       LET next == registerStart(cliPresent, bridgeFile)
       IN /\ pc' = next
          /\ reported' = reported \cup {Msg("registering", Undefined)}
               \cup (IF ~cliPresent
                     THEN {Msg("claudeNotFound", Undefined)} ELSE {})
               \cup (IF next = "bridgeDownload"
                     THEN {Msg("downloadingBridge", Undefined)} ELSE {})
          /\ bridgeFile' = IF next = "bridgeDownload" THEN File("")
                           ELSE bridgeFile
          /\ registered' = FALSE
  /\ UNCHANGED <<versionFile, installDir, tempDir, fnVars, archiveLocator,
                 envVars, histVars,
                 shouldUpdate, release, exitCode, outcome>>

\* downloadFile(url, bridgePath), the responses (index.js:339-356); a
\* rejection is caught by registerMCPServer (index.js:418-421)
BridgeDownload ==
  /\ pc = "bridgeDownload"
  /\ \E d \in DownloadResults :
       /\ bridgeRequests' = bridgeRequests + d.requests
       /\ bridgeFile' = d.file
       /\ IF d.settled = "finished"
          THEN /\ pc' = "registerAdd"
               /\ UNCHANGED <<exitCode, outcome, failedStage, reported,
                              registered>>
          ELSE IF d.settled = "rejected"
          THEN /\ pc' = "finish"
               /\ registered' = FALSE
               /\ reported' = reported \cup
                    {Msg("failedToRegister", Undefined)}
               /\ UNCHANGED <<exitCode, outcome, failedStage>>
          ELSE IF d.settled = "pending"
          THEN Exit(0, "Hung", "bridge", {}) /\ UNCHANGED registered
          ELSE Exit(1, "Crashed", "bridge", {}) /\ UNCHANGED registered
  /\ UNCHANGED <<versionFile, installDir, tempDir, fnVars, archiveLocator,
                 envVars,
                 shouldUpdate, release, stages, pipelineEntered,
                 archiveRequests, seen, versionWrite, addCalls>>

\* registerMCPServer(), the registration command (index.js:410-421)
RegisterAdd ==
  /\ pc = "registerAdd"
  /\ addCalls' = Append(addCalls, [name |-> "freecad",
                                   interpreter |-> pythonCmd(platform),
                                   path |-> "bridgePath"])
  /\ \E addFails \in BOOLEAN :
       /\ registered' = ~addFails
       /\ reported' = reported \cup
            {IF addFails THEN Msg("failedToRegister", Undefined)
             ELSE Msg("registered", Undefined)}
  /\ pc' = "finish"
  /\ UNCHANGED <<fsVars, fnVars, archiveLocator, envVars, shouldUpdate,
                 release, stages,
                 pipelineEntered, archiveRequests, failedStage, seen,
                 versionWrite, bridgeRequests, exitCode, outcome>>

\* install(), after registerMCPServer has returned (index.js:467-476); the
\* process then ends with status 0
Finish ==
  /\ pc = "finish"
  /\ Exit(0, IF registered THEN "Done" ELSE "PartiallyDone", "none",
          (IF registered THEN {}
           ELSE {Msg("manualRegistration", Undefined)})
          \cup {Msg("testSteps", Undefined), Msg("complete", Undefined)})
  /\ UNCHANGED <<fsVars, fnVars, archiveLocator, envVars, resultVars, stages,
                 pipelineEntered, archiveRequests, seen, versionWrite,
                 bridgeRequests, addCalls>>

Next ==
  \/ Main
  \/ CheckPrereqs
  \/ CheckForUpdates
  \/ DownloadAndInstallBegin
  \/ FetchArchive
  \/ ExtractZip
  \/ LocateAndInstall
  \/ SaveVersion
  \/ RegisterBegin
  \/ BridgeDownload
  \/ RegisterAdd
  \/ Finish

Spec == Init /\ [][Next]_vars

\* ------------------------------------- registerMCPServer, repeatedly
\* what install() may have left as the installed package and its recorded
\* version when it calls registerMCPServer (index.js:452-465)
RecordedChoices == {NoFile} \cup {VersionFileWith(t) : t \in TagStrings}
InstalledChoices == InstallChoices \cup {PayloadA}

\* install() is about to call registerMCPServer, the bridge artifact being
\* on disk or not
InitRegistrar ==
  /\ argv = <<>>
  /\ platform \in {"linux", "win32"}
  /\ versionFile \in RecordedChoices
  /\ installDir \in InstalledChoices
  /\ tempDir = Absent
  /\ bridgeFile \in {Absent, File("content")}
  /\ bridgeRequests = 0
  /\ preVersion = versionFile /\ preInstall = installDir
  /\ runs = 1
  /\ pc = "register" /\ exitCode = -1 /\ outcome = "running"
  /\ reported = {} /\ stages = <<>> /\ pipelineEntered = 0
  /\ archiveRequests = 0 /\ failedStage = "none" /\ seen = NotSeen
  /\ shouldUpdate = FALSE /\ release = Undefined /\ versionWrite = "none"
  /\ registered = FALSE /\ addCalls = <<>>
  /\ archiveLocator = NoLocator
  /\ CopyIdle
  /\ ConcurrentIdle
  /\ HostIdle
  /\ DownloadIdle
  /\ LocateIdle

\* a later run of the program has reached the call of registerMCPServer
\* (index.js:465), having installed any version of the package or none; the
\* bridge directory is as the earlier runs left it
RegisterAgain ==
  /\ pc = "exited" /\ runs < MaxRuns
  /\ runs' = runs + 1
  /\ versionFile' \in RecordedChoices
  /\ installDir' \in InstalledChoices
  /\ preVersion' = versionFile' /\ preInstall' = installDir'
  /\ pc' = "register" /\ exitCode' = -1 /\ outcome' = "running"
  /\ reported' = {} /\ failedStage' = "none"
  /\ registered' = FALSE /\ addCalls' = <<>>
  /\ UNCHANGED <<argv, platform, tempDir, bridgeFile, bridgeRequests,
                 shouldUpdate, release, stages, pipelineEntered,
                 archiveRequests, seen, versionWrite, fnVars,
                 archiveLocator>>

NextRegistrar ==
  \/ RegisterBegin
  \/ BridgeDownload
  \/ RegisterAdd
  \/ Finish
  \/ RegisterAgain

SpecRegistrar == InitRegistrar /\ [][NextRegistrar]_vars

\* ------------------------------------------- copyDirectory as a function
\* inputs of copyDirectory: a payload and whatever is at the destination
InitCopy ==
  /\ argv = <<>> /\ platform = "linux"
  /\ versionFile = NoFile /\ installDir = Absent /\ tempDir = Absent
  /\ bridgeFile = Absent /\ bridgeRequests = 0
  /\ preVersion = NoFile /\ preInstall = Absent /\ runs = 1
  /\ RunStart
  /\ cpSrc \in GenDirs(TreeDepth)
  /\ cpDest \in DestChoices
  /\ cpOut = cpDest /\ cpThrew = FALSE /\ cpPhase = 0
  /\ ConcurrentIdle
  /\ HostIdle
  /\ DownloadIdle
  /\ LocateIdle

\* copyDirectory(cpSrc, destination), with an I/O error injected or not
CopyOnce ==
  /\ cpPhase = 0
  /\ \E failAt \in 0..MaxFsOps :
       LET r == copyDirectory(cpSrc, cpDest, 0, failAt)
       IN cpOut' = r.node /\ cpThrew' = r.threw
  /\ cpPhase' = 1
  /\ UNCHANGED <<cpSrc, cpDest, dlVars, locVars, ccVars, hostVars, fsVars,
                 envVars,
                 histVars,
                 resultVars, ctlVars, archiveLocator>>

\* copyDirectory(cpSrc, destination) again, on what the first call left
CopyAgain ==
  /\ cpPhase = 1 /\ ~cpThrew
  /\ \E failAt \in 0..MaxFsOps :
       LET r == copyDirectory(cpSrc, cpOut, 0, failAt)
       IN cpOut' = r.node /\ cpThrew' = r.threw
  /\ cpPhase' = 2
  /\ UNCHANGED <<cpSrc, cpDest, dlVars, locVars, ccVars, hostVars, fsVars,
                 envVars,
                 histVars,
                 resultVars, ctlVars, archiveLocator>>

NextCopy == CopyOnce \/ CopyAgain

SpecCopy == InitCopy /\ [][NextCopy]_vars

\* ------------------------------------------------ download as a function
\* what the two servers answer: the host first asked, and the target of the
\* Location header if it is asked
InitDownload ==
  /\ argv = <<>> /\ platform = "linux"
  /\ versionFile = NoFile /\ installDir = Absent /\ tempDir = Absent
  /\ bridgeFile = Absent /\ bridgeRequests = 0
  /\ preVersion = NoFile /\ preInstall = Absent /\ runs = 1
  /\ RunStart
  /\ CopyIdle
  /\ ConcurrentIdle
  /\ HostIdle
  /\ LocateIdle
  /\ dlFirst \in HttpOutcomes /\ dlSecond \in HttpOutcomes
  /\ dlOut = NoDownload /\ dlPhase = 0

\* the request is made and answered (index.js:246-263, 339-356)
Download ==
  /\ dlPhase = 0
  /\ dlOut' = download(dlFirst, dlSecond)
  /\ dlPhase' = 1
  /\ UNCHANGED <<dlFirst, dlSecond, cpVars, locVars, ccVars, hostVars,
                 fsVars, envVars,
                 histVars, resultVars, ctlVars, archiveLocator>>

NextDownload == Download

SpecDownload == InitDownload /\ [][NextDownload]_vars

\* ------------------------------------------------- command-line dispatch
\* words a command line is made of
ArgWords == {"setup", "--update", "--help", "-h", "bogus"}

\* the command lines of at most MaxArgs words
ArgvUpTo == UNION {[1..k -> ArgWords] : k \in 0..MaxArgs}

\* the program is started with any such command line, on a host without
\* the bridge artifact and with or without a recorded version
InitMain ==
  /\ argv \in ArgvUpTo
  /\ platform = "linux"
  /\ versionFile \in {NoFile, VersionFileWith(<<"a">>)}
  /\ installDir = Absent
  /\ tempDir = Absent
  /\ bridgeFile = Absent
  /\ bridgeRequests = 0
  /\ preVersion = versionFile /\ preInstall = installDir
  /\ runs = 1
  /\ RunStart
  /\ CopyIdle
  /\ ConcurrentIdle
  /\ HostIdle
  /\ DownloadIdle
  /\ LocateIdle

SpecMain == InitMain /\ [][Next]_vars

\* ------------------------------------- runs on a store with the placeholder
\* a run, with or without --update, on a machine where no version is
\* recorded, or where an earlier install recorded the placeholder 'latest'
InitPlaceholder ==
  /\ argv \in {<<>>, <<"setup", "--update">>}
  /\ platform = "linux"
  /\ versionFile \in {NoFile, VersionFileWith(LatestLiteral)}
  /\ installDir = (IF versionFile.exists THEN PayloadA ELSE Absent)
  /\ tempDir = Absent
  /\ bridgeFile = Absent
  /\ bridgeRequests = 0
  /\ preVersion = versionFile /\ preInstall = installDir
  /\ runs = 1
  /\ RunStart
  /\ CopyIdle
  /\ ConcurrentIdle
  /\ HostIdle
  /\ DownloadIdle
  /\ LocateIdle

SpecPlaceholder == InitPlaceholder /\ [][Next]_vars

\* ------------------------------------------- a run and the one after it
\* the first run starts with no version recorded, or with one recorded and
\* the package of that time installed
InitRepeat ==
  /\ argv \in {<<>>, <<"setup", "--update">>}
  /\ platform = "linux"
  /\ versionFile \in {NoFile, VersionFileWith(<<"a">>)}
  /\ installDir = (IF versionFile.exists THEN OldInstall ELSE Absent)
  /\ tempDir = Absent
  /\ bridgeFile = Absent
  /\ bridgeRequests = 0
  /\ preVersion = versionFile /\ preInstall = installDir
  /\ runs = 1
  /\ RunStart
  /\ CopyIdle
  /\ ConcurrentIdle
  /\ HostIdle
  /\ DownloadIdle
  /\ LocateIdle

\* the first run has ended with a version in VersionStore, however it
\* ended, and the program is started again, with or without --update, on
\* the files the first run left
StartRun ==
  /\ pc = "exited" /\ runs = 1
  /\ versionFile.exists /\ trim(versionFile.content) # <<>>
  /\ runs' = runs + 1
  /\ argv' \in {<<>>, <<"setup", "--update">>}
  /\ preVersion' = versionFile /\ preInstall' = installDir
  /\ pc' = "main" /\ exitCode' = -1 /\ outcome' = "running"
  /\ reported' = {} /\ stages' = <<>> /\ pipelineEntered' = 0
  /\ archiveRequests' = 0 /\ failedStage' = "none" /\ seen' = NotSeen
  /\ shouldUpdate' = FALSE /\ release' = Undefined
  /\ versionWrite' = "none" /\ registered' = FALSE /\ addCalls' = <<>>
  /\ archiveLocator' = NoLocator
  /\ UNCHANGED <<platform, fsVars, bridgeRequests, fnVars>>

NextRepeat ==
  \/ Next
  \/ StartRun

SpecRepeat == InitRepeat /\ [][NextRepeat]_vars

\* ------------------------------- checkFreeCadInstallation as a function
\* every platform the function distinguishes, and one it does not know
HostPlatforms == SupportedPlatforms \cup {"freebsd"}

InitHost ==
  /\ argv = <<>> /\ platform \in HostPlatforms
  /\ versionFile = NoFile /\ installDir = Absent /\ tempDir = Absent
  /\ bridgeFile = Absent /\ bridgeRequests = 0
  /\ preVersion = NoFile /\ preInstall = Absent /\ runs = 1
  /\ RunStart
  /\ CopyIdle
  /\ ConcurrentIdle
  /\ DownloadIdle
  /\ LocateIdle
  /\ hostEnv \in HostEnvs /\ hostOut = FALSE /\ hostPhase = 0

\* checkFreeCadInstallation() is called (index.js:440)
DetectHost ==
  /\ hostPhase = 0
  /\ hostOut' = checkFreeCadInstallation(platform, hostEnv)
  /\ hostPhase' = 1
  /\ UNCHANGED <<hostEnv, cpVars, dlVars, locVars, ccVars, fsVars, envVars,
                 histVars, resultVars, ctlVars, archiveLocator>>

NextHost == DetectHost

SpecHost == InitHost /\ [][NextHost]_vars

\* ------------------------------------- two runs sharing the temp directory
\* Every run uses the one path <tmp>/freecad-mcp-temp (index.js:197) and
\* the one archive path repo.zip in it (index.js:241). ccTemp records
\* whether the directory exists, the archive file at repo.zip (the runs
\* holding a write stream on it, and whether a body was written in full) and
\* the runs whose extraction contributed to the tree in the directory.

\* a directory just created
FreshTemp == [exists |-> TRUE, zip |-> NoZip, tree |-> {}]

\* the directory is created if missing and what is in it is kept
cleanTempKeeping(temp) == [temp EXCEPT !.exists = TRUE]

\* rmSync(tempDir) if it exists, then mkdirSync(tempDir) (index.js:199-203)
cleanTemp(temp) == FreshTemp

\* a run of the pipeline is going
Going(r) == ccPc[r] \notin {"idle", "done", "failed"}

InitConcurrent ==
  /\ argv = <<>> /\ platform = "linux"
  /\ versionFile = NoFile /\ installDir = Absent /\ tempDir = Absent
  /\ bridgeFile = Absent /\ bridgeRequests = 0
  /\ preVersion = NoFile /\ preInstall = Absent /\ runs = 1
  /\ RunStart
  /\ CopyIdle
  /\ ConcurrentIdle
  /\ HostIdle
  /\ DownloadIdle
  /\ LocateIdle

OtherVarsUnchanged ==
  UNCHANGED <<cpVars, dlVars, locVars, hostVars, fsVars, envVars, histVars,
              resultVars, ctlVars, archiveLocator>>

\* downloadAndInstall, the cleanup at the start (index.js:196-203)
CleanTemp(r) ==
  /\ ccPc[r] = "idle"
  /\ ccTemp' = cleanTemp(ccTemp)
  /\ ccOverlap' = (ccOverlap \/ \E o \in Runs \ {r} : Going(o))
  /\ ccPc' = [ccPc EXCEPT ![r] = "open"]
  /\ UNCHANGED <<ccFrom, ccFail>>
  /\ OtherVarsUnchanged

\* fs.createWriteStream(zipPath) opens the file (index.js:244): it creates
\* it, or truncates the file that is at the path; with no directory the
\* stream's 'error' event has no listener and the process is ended
OpenArchive(r) ==
  /\ ccPc[r] = "open"
  /\ IF ccTemp.exists
     THEN /\ ccTemp' = [ccTemp EXCEPT
                          !.zip = [at |-> TRUE,
                                   fds |-> ccTemp.zip.fds \cup {r},
                                   full |-> FALSE]]
          /\ ccPc' = [ccPc EXCEPT ![r] = "fetch"]
          /\ UNCHANGED ccFail
     ELSE /\ ccPc' = [ccPc EXCEPT ![r] = "failed"]
          /\ ccFail' = [ccFail EXCEPT ![r] = "open"]
          /\ UNCHANGED ccTemp
  /\ UNCHANGED <<ccFrom, ccOverlap>>
  /\ OtherVarsUnchanged

\* the response is piped to the stream and 'finish' fires (index.js:
\* 245-262): the body is in the file the stream was opened on, which is at
\* the path only if it was not removed since
FetchBody(r) ==
  /\ ccPc[r] = "fetch"
  /\ ccTemp' = IF ccTemp.exists /\ ccTemp.zip.at /\ r \in ccTemp.zip.fds
               THEN [ccTemp EXCEPT !.zip.full = TRUE]
               ELSE ccTemp
  /\ ccPc' = [ccPc EXCEPT ![r] = "extract"]
  /\ UNCHANGED <<ccFrom, ccFail, ccOverlap>>
  /\ OtherVarsUnchanged

\* extractZip(zipPath, tempDir) (index.js:268-298): statSync and AdmZip
\* throw when no file is at the path or the file is not a whole archive;
\* else the entries are extracted into the directory and the file unlinked
ExtractArchive(r) ==
  /\ ccPc[r] = "extract"
  /\ IF ccTemp.exists /\ ccTemp.zip.at /\ ccTemp.zip.full
     THEN /\ ccTemp' = [ccTemp EXCEPT !.zip = NoZip,
                                      !.tree = ccTemp.tree \cup {r}]
          /\ ccPc' = [ccPc EXCEPT ![r] = "locate"]
          /\ UNCHANGED ccFail
     ELSE /\ ccPc' = [ccPc EXCEPT ![r] = "failed"]
          /\ ccFail' = [ccFail EXCEPT ![r] = "extract"]
          /\ UNCHANGED ccTemp
  /\ UNCHANGED <<ccFrom, ccOverlap>>
  /\ OtherVarsUnchanged

\* downloadAndInstall after the await (index.js:208-227): readdirSync throws
\* with no directory, findAICopilotDir finds nothing in an empty one; else
\* the tree that is there is copied, with an I/O error or not, and the
\* directory removed after a complete copy
InstallTree(r) ==
  /\ ccPc[r] = "locate"
  /\ IF ~ccTemp.exists \/ ccTemp.tree = {}
     THEN /\ ccPc' = [ccPc EXCEPT ![r] = "failed"]
          /\ ccFail' = [ccFail EXCEPT ![r] = "locate"]
          /\ UNCHANGED <<ccTemp, ccFrom>>
     ELSE \E copyFails \in BOOLEAN :
            IF copyFails
            THEN /\ ccPc' = [ccPc EXCEPT ![r] = "failed"]
                 /\ ccFail' = [ccFail EXCEPT ![r] = "copy"]
                 /\ UNCHANGED <<ccTemp, ccFrom>>
            ELSE /\ ccPc' = [ccPc EXCEPT ![r] = "done"]
                 /\ ccFrom' = [ccFrom EXCEPT ![r] = ccTemp.tree]
                 /\ ccTemp' = NoTemp
                 /\ UNCHANGED ccFail
  /\ UNCHANGED ccOverlap
  /\ OtherVarsUnchanged

NextConcurrent ==
  \E r \in Runs :
    \/ CleanTemp(r)
    \/ OpenArchive(r)
    \/ FetchBody(r)
    \/ ExtractArchive(r)
    \/ InstallTree(r)

SpecConcurrent == InitConcurrent /\ [][NextConcurrent]_vars

\* ---------------------------------------- findAICopilotDir as a function
\* names of the wrapper directories of the trees searched
WrapperNames == {"deep", "other"}

\* the sequences of at most n wrapper names
RECURSIVE WrapperPaths(_)
WrapperPaths(n) ==
  IF n = 0 THEN {<<>>}
  ELSE WrapperPaths(n - 1)
       \cup {<<w>> \o q : w \in WrapperNames,
                           q \in {r \in WrapperPaths(n - 1) : Len(r) = n - 1}}

\* the entries of interest: a directory of the package name, a regular file
\* of that name, and a directory whose name differs in case
LeafKinds ==
  {[name |-> "AICopilot", node |-> Dir("InitGui.py" :> File("new"))],
   [name |-> "AICopilot", node |-> File("doc")],
   [name |-> "aicopilot", node |-> Dir("InitGui.py" :> File("new"))]}

\* an entry of interest under a chain of wrapper directories, at levels
\* 1..MaxLevel below the root
Leaves ==
  {[path |-> w \o <<k.name>>, node |-> k.node] :
     w \in WrapperPaths(MaxLevel - 1), k \in LeafKinds}

\* no two entries at the same path
Consistent(L) ==
  \A l1, l2 \in L : l1.path = l2.path => l1 = l2

\* the smallest tree holding the entries L
RECURSIVE TreeOf(_)
TreeOf(L) ==
  Dir([n \in {Head(l.path) : l \in L} |->
         IF \E l \in L : l.path = <<n>>
         THEN (CHOOSE l \in L : l.path = <<n>>).node
         ELSE TreeOf({[path |-> Tail(l.path), node |-> l.node] :
                        l \in {m \in L : Head(m.path) = n}})])

\* the subsets of S of at most n elements
RECURSIVE SubsetsUpTo(_, _)
SubsetsUpTo(S, n) ==
  IF n = 0 THEN {{}}
  ELSE LET smaller == SubsetsUpTo(S, n - 1)
       IN smaller \cup {T \cup {x} : x \in S, T \in smaller}

\* the extracted trees findAICopilotDir is applied to: those of at most n
\* leaves
TreeChoices(n) ==
  {TreeOf(L) : L \in {M \in SubsetsUpTo(Leaves, n) : Consistent(M)}}

InitLocate ==
  /\ argv = <<>> /\ platform = "linux"
  /\ versionFile = NoFile /\ installDir = Absent /\ tempDir = Absent
  /\ bridgeFile = Absent /\ bridgeRequests = 0
  /\ preVersion = NoFile /\ preInstall = Absent /\ runs = 1
  /\ RunStart
  /\ CopyIdle
  /\ ConcurrentIdle
  /\ HostIdle
  /\ DownloadIdle
  /\ locTree \in TreeChoices(MaxLeaves)
  /\ locOut = NotFound /\ locPhase = 0

\* findAICopilotDir(tempDir) is called (index.js:212)
Locate ==
  /\ locPhase = 0
  /\ locOut' = findAICopilotDir(locTree)
  /\ locPhase' = 1
  /\ UNCHANGED <<locTree, cpVars, dlVars, ccVars, hostVars, fsVars, envVars,
                 histVars,
                 resultVars, ctlVars, archiveLocator>>

NextLocate == Locate

SpecLocate == InitLocate /\ [][NextLocate]_vars

\* ------------------------------------------------------------ properties
Force == includes(argv, "--update")

\* checkForUpdates has run and the release index answered with an object
Resolved == seen.checked /\ seen.resolved

\* getCurrentVersion returned a version (not null, not empty)
LocalRecorded == seen.checked /\ Truthy(seen.current)

\* the release carries a tag, and it is not the recorded version
TagDiffers ==
  Resolved /\ LocalRecorded /\ seen.latest.type = "string"
  /\ seen.latest # seen.current

\* the release carries a tag byte-equal to the recorded version
TagEquals == Resolved /\ LocalRecorded /\ seen.latest = seen.current

FullPipeline == <<"fetch", "extract", "locate", "install">>

IsPrefix(s, t) == Len(s) <= Len(t) /\ s = SubSeq(t, 1, Len(s))

LocalAbsentOnDisk ==
  \/ ~preVersion.exists
  \/ trim(preVersion.content) = <<>>
  \/ seen.current = Null

\* C4: whenever the local version is absent and the release index resolved,
\* with or without --update and for every tag: checkForUpdates returned
\* shouldUpdate = true with the release, nothing was deferred (no "new
\* version available" or "to update, run" message), and the run goes on to
\* downloadAndInstall.
C4_AbsentAlwaysUpdates ==
  (Resolved /\ LocalAbsentOnDisk) =>
    /\ shouldUpdate = TRUE
    /\ release = [type |-> "object", tag_name |-> seen.latest]
    /\ Msg("installing", seen.latest) \in reported
    /\ \A m \in reported : m.msg \notin {"newVersion", "howToUpdate",
                                         "upToDate"}
    /\ pc # "register" \/ pipelineEntered = 1
    /\ pc # "downloadAndInstall" => pipelineEntered = 1

\* a run without --update whose version file holds only whitespace has
\* entered the pipeline
C4_Witness ==
  /\ Resolved /\ ~Force
  /\ preVersion.exists /\ preVersion.content # <<>>
  /\ trim(preVersion.content) = <<>>
  /\ "fetch" \in {stages[i] : i \in 1..Len(stages)}

\* C5: in a run started with --update where the recorded local version
\* equals the latest tag, checkForUpdates asks for the update (and the
\* pipeline runs).
C5_ForceWhenEqual ==
  (TagEquals /\ Force) => shouldUpdate = TRUE

PipelineStages == {"fetch", "extract", "locate", "install"}

\* C7: at the exit of every run in which fetch, extract, locate or install
\* failed, VersionStore equals its value before the run and the exit code
\* is 1.
C7_FailureKeepsVersionAndExits1 ==
  (pc = "exited" /\ failedStage \in PipelineStages) =>
    /\ versionFile = preVersion
    /\ exitCode = 1

RECURSIVE IsPartOf(_, _)
IsPartOf(part, whole) ==
  /\ isDirectory(part) /\ isDirectory(whole)
  /\ DOMAIN part.items \subseteq DOMAIN whole.items
  /\ \A n \in DOMAIN part.items :
       \/ part.items[n] = whole.items[n]
       \/ IsPartOf(part.items[n], whole.items[n])

HasPackageDir(root) ==
  \E p \in DirPaths(root, SearchDepthLimit + 1) : p[Len(p)] = PackageName

\* C9: when the extracted tree holds no directory named AICopilot within
\* the levels searched, findAICopilotDir returns not-found and the step ends
\* the run with exit code 1, InstallDirectory and VersionStore being what
\* they were before the run, before and after the step.
C9_NotFoundIsFatal ==
  [][(pc = "locate" /\ ~HasPackageDir(tempDir)) =>
       /\ ~findAICopilotDir(tempDir).found
       /\ pc' = "exited" /\ exitCode' = 1 /\ outcome' = "FailedFatal"
       /\ failedStage' = "locate"
       /\ installDir = preInstall /\ installDir' = preInstall
       /\ versionFile = preVersion /\ versionFile' = preVersion
       /\ versionWrite' = "none"]_vars

\* a run over an existing installation ended at locate, the package
\* directory lying four levels below the root of the extracted tree
C9_Witness ==
  /\ pc = "exited" /\ failedStage = "locate" /\ exitCode = 1
  /\ preInstall = OldInstall /\ preVersion.exists
  /\ isDirectory(tempDir) /\ ~HasPackageDir(tempDir)
  /\ \E p \in DirPaths(tempDir, SearchDepthLimit + 2) :
       p[Len(p)] = PackageName

\* C10: a copyDirectory(payload, target) that completes without error
\* leaves at target exactly the payload, whatever target held before; a
\* second copyDirectory of the same payload onto the result leaves what the
\* first one left.
C10_CopyExactAndIdempotent ==
  (cpPhase >= 1 /\ ~cpThrew) =>
    /\ cpOut = cpSrc
    /\ cpPhase = 2 => cpOut = copyDirectory(cpSrc, cpDest, 0, 0).node

\* copied twice without error over a previous installation, the payload
\* holding a file in a subdirectory
C10_Witness ==
  /\ cpPhase = 2 /\ ~cpThrew
  /\ cpDest = OldInstall
  /\ Lookup(cpSrc, <<"tools", "InitGui.py">>) = File("new")
  /\ Lookup(cpOut, <<"legacy.py">>) = Absent

\* the extracted tree of scenario A: the package directory under two wrapper
\* directories
TwoWrapperTree ==
  Dir("freecad-mcp-main" :> Dir("v1.2.0-archive" :>
                                Dir("AICopilot" :> PayloadA)))

TwoWrapperPath == <<"freecad-mcp-main", "v1.2.0-archive", "AICopilot">>

\* the local version is absent and the release index answered with a tag
ScenarioA ==
  Resolved /\ LocalAbsentOnDisk /\ seen.latest.type = "string"

C12_BridgeDownloadedOnce ==
  [][/\ existsSync(bridgeFile) => existsSync(bridgeFile')
     /\ (existsSync(bridgeFile) /\ pc # "bridgeDownload") =>
          bridgeRequests' = bridgeRequests
     /\ pc' = "bridgeDownload" =>
          (pc = "register" /\ ~existsSync(bridgeFile))
     /\ bridgeRequests' <= 2]_vars

\* the first registration downloaded the artifact through a redirect; a
\* later one, over another recorded version, registered without a download
C12_Witness ==
  /\ runs = 2 /\ pc = "exited" /\ outcome = "Done"
  /\ bridgeRequests = 2 /\ bridgeFile = File("content")
  /\ Msg("downloadingBridge", Undefined) \notin reported
  /\ versionFile = VersionFileWith(LatestLiteral)

\* the run went through install() (it was not ended by main() itself)
OrchestratorRun == outcome \notin {"running", "Help", "UnknownCommand"}

\* the stages whose failure is fatal: the four of the pipeline, with the
\* choice of the Mod directory and the removal of the temp directory that
\* downloadAndInstall makes around them
FatalStages == PipelineStages \cup {"platform", "cleanup"}

\* C13: at the exit of every run of install(), the exit status is 1 if and
\* only if a stage of fetch, extract, locate or install failed, and it is 0
\* when the run ended in Done or PartiallyDone.
C13_ExitOneIffFailedFatal ==
  (pc = "exited" /\ OrchestratorRun) =>
    /\ exitCode = 1 <=> failedStage \in FatalStages
    /\ outcome \in {"Done", "PartiallyDone"} => exitCode = 0

\* the CLI was found and registration then failed: the add-server command
\* failed or the bridge download was rejected (both reported by the catch of
\* registerMCPServer), or the bridge download broke off
RegistrationFailed ==
  \/ Msg("failedToRegister", Undefined) \in reported
  \/ failedStage = "bridge"

\* InstallDirectory and VersionStore are as the install stage left them: as
\* before the run when the pipeline did not run, else the payload and,
\* when the version was written, the version install() records
InstallResultKept ==
  /\ installDir = (IF stages = FullPipeline THEN PayloadA ELSE preInstall)
  /\ versionFile = (IF versionWrite = "ok"
                    THEN VersionFileWith(versionToSave(release))
                    ELSE preVersion)

\* C14: at the exit of every run in which the CLI was present and the
\* add-server command or the bridge download failed: InstallDirectory and
\* VersionStore are as the install stage left them, the manual-registration
\* instructions were printed, and the exit status is 0.
C14_RegistrationFailureCaught ==
  (pc = "exited" /\ RegistrationFailed) =>
    /\ InstallResultKept
    /\ Msg("manualRegistration", Undefined) \in reported
    /\ exitCode = 0

\* C15: whenever the probe of the CLI failed in a run: registerMCPServer
\* returned false without an exception being reported, the bridge artifact
\* was neither requested nor its file created, the add-server command was
\* not invoked, and the run proceeds to its end, where the manual
\* registration guidance is printed and the exit status is 0.
C15_ProbeFailureSkipsRegistration ==
  Msg("claudeNotFound", Undefined) \in reported =>
    /\ registered = FALSE
    /\ Msg("failedToRegister", Undefined) \notin reported
    /\ Msg("downloadingBridge", Undefined) \notin reported
    /\ bridgeRequests = 0 /\ bridgeFile \in {Absent, File("content")}
    /\ addCalls = <<>>
    /\ pc \in {"finish", "exited"}
    /\ pc = "exited" =>
         /\ exitCode = 0 /\ outcome = "PartiallyDone"
         /\ Msg("manualRegistration", Undefined) \in reported

\* the package was installed, the probe failed with the bridge artifact
\* missing, and the run has ended
C15_Witness ==
  /\ pc = "exited" /\ Msg("claudeNotFound", Undefined) \in reported
  /\ stages = FullPipeline /\ bridgeFile = Absent
  /\ exitCode = 0 /\ Msg("manualRegistration", Undefined) \in reported

\* C16: whenever the install stage succeeded and the write of the version
\* file failed: a warning was emitted and no failure of the installation
\* was reported, VersionStore holds its previous value, the run went on to
\* registration, and at its exit the status is 0.
C16_VersionWriteFailureNonFatal ==
  versionWrite = "failed" =>
    /\ stages = FullPipeline
    /\ Msg("couldNotSaveVersion", Undefined) \in reported
    /\ Msg("installationFailed", Undefined) \notin reported
    /\ versionFile = preVersion
    /\ pc \in {"register", "bridgeDownload", "registerAdd", "finish",
               "exited"}
    /\ pc = "exited" =>
         /\ Msg("registering", Undefined) \in reported
         /\ exitCode = 0

\* C17: whenever checkForUpdates has called getCurrentVersion: it returned
\* a string or null and no exception; null when the version file did not
\* exist; a string only when the file existed, and then its content without
\* the surrounding whitespace; and for the file of this run it returns that
\* string when the read succeeds and null when the read throws.
C17_ReadNeverThrows ==
  seen.checked =>
    /\ seen.current.type \in {"string", "null"}
    /\ ~preVersion.exists => seen.current = Null
    /\ seen.current.type = "string" =>
         /\ preVersion.exists
         /\ seen.current.val = trim(preVersion.content)
    /\ preVersion.exists =>
         /\ getCurrentVersion(preVersion, FALSE)
              = JsString(trim(preVersion.content))
         /\ getCurrentVersion(preVersion, TRUE) = Null

\* the version file holds a version and the read failed: null was
\* returned and the run went on as with no version recorded
C17_Witness ==
  /\ seen.checked /\ seen.current = Null
  /\ preVersion.exists /\ trim(preVersion.content) # <<>>
  /\ pc = "fetch"

\* C18: whenever checkForUpdates has run and the release index did not
\* deliver a release with a version tag (it was unreachable, or its payload
\* was unparseable, or parseable without a tag_name): the resolution counts
\* as failed, that is, the failure was reported, shouldUpdate is true with
\* no release, and no version of the payload was compared with the local
\* version or announced.
C18_MalformedPayloadRejected ==
  (seen.checked /\ seen.latest.type # "string") =>
    /\ ~seen.resolved
    /\ shouldUpdate = TRUE /\ release = Null
    /\ Msg("couldNotCheck", Undefined) \in reported
    /\ \A m \in reported :
         m.msg \notin {"newVersion", "installing", "upToDate"}

Redirect(r) == ~r.error /\ r.status \in {301, 302}

\* C19: after a download, for every pair of answers: when the first
\* response is a 301 or 302, exactly one further request was made (to the
\* Location target) and, when the second response arrives in full, its body
\* is what the file holds, also when the second response is a redirect
\* itself; without a redirect one request was made; a third request is
\* never made.
C19_SingleRedirectHop ==
  dlPhase = 1 =>
    /\ dlOut.requests \in {1, 2}
    /\ Redirect(dlFirst) =>
         /\ dlOut.requests = 2
         /\ (~dlSecond.error /\ dlSecond.stream = "complete") =>
              /\ dlOut.settled = "finished"
              /\ dlOut.file = File(bodyOf(dlSecond.status))
    /\ ~Redirect(dlFirst) => dlOut.requests = 1

\* a chain of two redirects: the second response, itself a redirect, was
\* stored as the archive and no third request was made
C19_Witness ==
  /\ dlPhase = 1 /\ Redirect(dlFirst) /\ Redirect(dlSecond)
  /\ dlSecond.stream = "complete"
  /\ dlOut.requests = 2 /\ dlOut.settled = "finished"
  /\ dlOut.file = File("errorpage")

\* the archive file holds the body of a response of a non-success status
ErrorBodyReceived ==
  isDirectory(tempDir) /\ Lookup(tempDir, <<"repo.zip">>) = File("errorpage")

\* C20: whenever the body stored by the archive fetch is that of a final
\* response with a non-success status, the extraction is not attempted
\* (neither pending nor started), and the run ends with the fetch as the
\* failed stage.
C20_NonSuccessStatusFailsFetch ==
  ErrorBodyReceived =>
    /\ pc # "extract"
    /\ \A i \in 1..Len(stages) : stages[i] # "extract"
    /\ pc = "exited" => failedStage = "fetch"

\* the stage was started in this run
Started(stage) == \E i \in 1..Len(stages) : stages[i] = stage

\* C21: at the exit of every run whose archive was downloaded and handed
\* to extractZip, the archive file repo.zip does not exist, whether the
\* extraction succeeded (and whatever happened afterwards) or failed.
C21_ArchiveFileDeleted ==
  (pc = "exited" /\ Started("extract")) =>
    Lookup(tempDir, <<"repo.zip">>) = Absent

\* C22: at the exit of every run that entered the pipeline and created the
\* temp directory, the temp directory does not exist, after a successful
\* install as on the error paths of extract, locate and install.
C22_TempDirDeleted ==
  (pc = "exited" /\ Started("extract")) => tempDir = Absent

RECURSIVE PreOrderFrom(_, _, _, _)
PreOrderFrom(dir, path, levelsLeft, items) ==
  IF items = <<>> THEN <<>>
  ELSE LET e == Head(items)
           node == dir.items[e]
           below == IF levelsLeft > 1
                    THEN PreOrderFrom(node, path \o <<e>>, levelsLeft - 1,
                                      readdirSync(node))
                    ELSE <<>>
       IN (IF isDirectory(node) THEN <<path \o <<e>>>> \o below ELSE <<>>)
          \o PreOrderFrom(dir, path, levelsLeft, Tail(items))

\* the first path of the sequence whose last name is exactly the package
\* name
FirstMatch(paths) ==
  LET hits == {i \in 1..Len(paths) :
                 paths[i][Len(paths[i])] = PackageName}
  IN IF hits = {} THEN NotFound
     ELSE FoundAt(paths[CHOOSE i \in hits : \A j \in hits : i <= j])

\* C24: findAICopilotDir returns the first directory in depth-first order
\* (within the levels searched) whose name is exactly AICopilot, and
\* not-found when there is none: what it returns is a directory, never a
\* regular file of that name nor a directory whose name differs in case, and
\* a match below an earlier sibling is returned rather than a match nearer to
\* the root below a later sibling.
C24_FirstMatchDepthFirst ==
  locPhase = 1 =>
    /\ locOut = FirstMatch(PreOrderFrom(locTree, <<>>, SearchDepthLimit + 1,
                                        readdirSync(locTree)))
    /\ locOut.found =>
         /\ isDirectory(Lookup(locTree, locOut.path))
         /\ locOut.path[Len(locOut.path)] = "AICopilot"

\* the package directory three levels down below the first child was
\* returned, the second child holding one two levels down
C24_Witness ==
  /\ locPhase = 1
  /\ locOut = FoundAt(<<"deep", "deep", "AICopilot">>)
  /\ isDirectory(Lookup(locTree, <<"other", "AICopilot">>))

\* registerMCPServer has been entered in this run
RegistrationBegun == Msg("registering", Undefined) \in reported

\* C25: in every state of a run the stages started are a prefix of fetch,
\* extract, locate, install; the pipeline is entered and the archive
\* requested only after checkForUpdates has returned; extraction waits for
\* the fetch; InstallDirectory differs from its value before the run only
\* when locate has returned a directory and install has started; the
\* version is written only after the copy has completed; and registration
\* begins only after the version write, when an update was due, with no
\* stage of the pipeline pending.
C25_StagesStrictlyOrdered ==
  /\ IsPrefix(stages, FullPipeline)
  /\ (pipelineEntered > 0 \/ archiveRequests > 0 \/ stages # <<>>) =>
       (seen.checked /\ shouldUpdate)
  /\ pc = "fetch" => (stages = <<"fetch">> /\ archiveRequests = 0)
  /\ Started("extract") => archiveRequests > 0
  /\ pc = "extract" => stages = <<"fetch">>
  /\ pc = "locate" => stages = <<"fetch", "extract">>
  /\ installDir # preInstall => Started("install")
  /\ versionWrite # "none" =>
       (stages = FullPipeline /\ installDir = PayloadA /\ tempDir = Absent)
  /\ versionFile # preVersion => versionWrite = "ok"
  /\ pc = "saveVersion" => (versionWrite = "none" /\ ~RegistrationBegun)
  /\ RegistrationBegun =>
       /\ seen.checked
       /\ shouldUpdate => (stages = FullPipeline /\ versionWrite # "none")
       /\ ~shouldUpdate => (stages = <<>> /\ versionWrite = "none")
  /\ (bridgeRequests > 0 \/ addCalls # <<>>) => RegistrationBegun

\* a run replaced a previous installation, recorded the version, fetched
\* the bridge artifact and registered
C25_Witness ==
  /\ pc = "exited" /\ outcome = "Done"
  /\ stages = FullPipeline /\ versionWrite = "ok"
  /\ preInstall = OldInstall /\ installDir = PayloadA
  /\ bridgeRequests > 0 /\ Len(addCalls) = 1

\* C26: at the exit of every run of install() that did not end in the
\* catch block (FailedFatal), registration was attempted, and never more
\* than once (one probe, at most one add-server command); a run that ended
\* in FailedFatal had entered the pipeline, and wrote no version and
\* attempted no registration.
C26_RegistrationOncePerRun ==
  /\ (pc = "exited" /\ OrchestratorRun /\ outcome # "FailedFatal") =>
       RegistrationBegun
  /\ Len(addCalls) <= 1
  /\ outcome = "FailedFatal" =>
       /\ pc = "exited" /\ pipelineEntered = 1
       /\ versionWrite = "none" /\ versionFile = preVersion
       /\ ~RegistrationBegun /\ addCalls = <<>>

HostDetected == Msg("freecadFound", Undefined) \in reported
HostNotDetected == Msg("freecadNotDetected", Undefined) \in reported

\* C27: in every run of install(), once the host check has been made,
\* whatever it returned (on win32 it always errs and returns false): the run
\* is at, or has passed, version resolution and never ends before it; a
\* host not detected is reported as a warning and nothing else; and the exit
\* status is decided by the later stages alone (1 only when one of them
\* failed or crashed).
C27_PrereqCheckAdvisory ==
  /\ (pc \notin {"main", "checkPrereqs"} /\ OrchestratorRun) =>
       (HostDetected \/ HostNotDetected)
  /\ (HostDetected \/ HostNotDetected) =>
       /\ ~(HostDetected /\ HostNotDetected)
       /\ pc # "checkPrereqs"
       /\ pc = "checkForUpdates" \/ seen.checked
       /\ Msg("installationFailed", Undefined) \in reported =>
            failedStage \in FatalStages
       /\ pc = "exited" => (exitCode = 1 <=> outcome \in {"FailedFatal",
                                                          "Crashed"})
  /\ (platform = "win32" /\ pc \notin {"main", "checkPrereqs"}
      /\ OrchestratorRun) => HostNotDetected

\* a run on win32, where the detection errs, installed and registered
C27_Witness ==
  /\ pc = "exited" /\ outcome = "Done" /\ exitCode = 0
  /\ platform = "win32" /\ HostNotDetected
  /\ stages = FullPipeline

HelpAsked == includes(argv, "--help") \/ includes(argv, "-h")

SetupAsked == Len(argv) = 0 \/ argv[1] = "setup"

\* install() has been started
InstallStarted == Msg("setup", Undefined) \in reported

\* nothing on disk was changed and no request was made
NothingTouched ==
  /\ installDir = preInstall /\ versionFile = preVersion
  /\ tempDir = Absent /\ bridgeFile = Absent
  /\ archiveRequests = 0 /\ bridgeRequests = 0
  /\ ~seen.checked /\ addCalls = <<>>

\* C28: once main() has dispatched: if --help or -h is among the
\* arguments, at any position, usage was printed, the process has exited
\* with 0 and install() was not started; otherwise install() was started
\* exactly when there are no arguments or the first one is 'setup'; with
\* any other first argument an error was printed and the process has exited
\* with 1; in the two cases without install() nothing on disk was changed
\* and no request was made.
C28_CommandLineDispatch ==
  pc # "main" =>
    /\ HelpAsked =>
         /\ pc = "exited" /\ exitCode = 0 /\ outcome = "Help"
         /\ Msg("usage", Undefined) \in reported
         /\ ~InstallStarted /\ NothingTouched
    /\ InstallStarted <=> (~HelpAsked /\ SetupAsked)
    /\ (~HelpAsked /\ ~SetupAsked) =>
         /\ pc = "exited" /\ exitCode = 1 /\ outcome = "UnknownCommand"
         /\ Msg("unknownCommand", Undefined) \in reported
         /\ NothingTouched

\* 'setup -h': the help flag after the subcommand printed the usage and
\* nothing was installed, no version being recorded
C28_Witness ==
  /\ pc = "exited" /\ argv = <<"setup", "-h">>
  /\ outcome = "Help" /\ exitCode = 0 /\ ~preVersion.exists
  /\ NothingTouched

\* the probe of the external CLI succeeded
CliPresent ==
  /\ RegistrationBegun
  /\ Msg("claudeNotFound", Undefined) \notin reported

\* the bridge file was there when registration looked for it, or its
\* download has finished
BridgeAvailable ==
  IF Msg("downloadingBridge", Undefined) \in reported
  THEN bridgeFile \notin {File(""), File("partial")} /\ failedStage # "bridge"
  ELSE existsSync(bridgeFile)

\* C29: the add-server subcommand is invoked at most once, only when the
\* external CLI is present and the bridge artifact is available; once
\* registration has returned in that case it was invoked exactly once; its
\* arguments are the name 'freecad', the interpreter and the bridge path,
\* and the interpreter is 'python' exactly on win32 and 'python3' on
\* every other platform.
C29_AddServerInvocation ==
  /\ Len(addCalls) <= 1
  /\ \A i \in 1..Len(addCalls) :
       /\ addCalls[i].name = "freecad"
       /\ addCalls[i].path = "bridgePath"
       /\ addCalls[i].interpreter \in {"python", "python3"}
       /\ (addCalls[i].interpreter = "python") <=> (platform = "win32")
       /\ CliPresent /\ BridgeAvailable
  /\ (pc \in {"finish", "exited"} /\ CliPresent /\ BridgeAvailable)
       => Len(addCalls) = 1

\* a run on win32 that downloaded the bridge artifact and registered with
\* the interpreter 'python'
C29_Witness ==
  /\ pc = "exited" /\ platform = "win32" /\ outcome = "Done"
  /\ bridgeRequests > 0
  /\ Len(addCalls) = 1 /\ addCalls[1].interpreter = "python"

\* C30: at the end of a run of 'setup' without a flag that found a version
\* recorded and a different latest version published, the latest files
\* have been downloaded and installed: the archive was requested, the
\* pipeline has run and InstallDirectory holds the new payload.
C30_RerunInstallsLatest ==
  (pc = "exited" /\ main(argv) = "install" /\ ~Force /\ TagDiffers
   /\ outcome \in {"Done", "PartiallyDone"})
    => /\ archiveRequests > 0
       /\ stages = FullPipeline
       /\ installDir = PayloadA

\* a run was affected by what another run did to the temp directory: it
\* failed for want of the directory, its archive or its tree, or it
\* installed a tree that is not of its own extraction alone
Harmed(r) ==
  \/ ccPc[r] = "failed" /\ ccFail[r] \in {"open", "extract", "locate"}
  \/ ccPc[r] = "done" /\ ccFrom[r] # {r}

\* C31: a run of the pipeline fails for want of its temp directory, archive
\* or extracted tree, or installs a tree it did not extract, only if a run
\* began while another was going; with one run at a time every run that
\* does not fail in its own copy installs the tree it extracted. (That
\* such an interleaving exists is the witness.)
C31_InterferenceOnlyWhenOverlapping ==
  \A r \in Runs : Harmed(r) => ccOverlap

\* run 2 began while run 1 was going, its cleanup removed the tree run 1
\* had extracted, and run 1 has installed the tree run 2 extracted
C31_Witness ==
  /\ ccOverlap
  /\ ccPc[1] = "done" /\ ccFrom[1] = {2}
  /\ ccPc[2] = "failed" /\ ccFail[2] = "locate"

\* C32: checkFreeCadInstallation has returned: on win32 it returned true
\* whenever FreeCAD.exe exists at one of the common paths or the freecad
\* command is resolvable on PATH; on linux it returned true exactly when
\* 'which freecad' succeeds; on darwin exactly when /Applications/FreeCAD.app
\* exists.
C32_HostDetection ==
  hostPhase = 1 =>
    /\ platform = "win32" =>
         ((hostEnv.commonPath \/ hostEnv.whereOk) => hostOut)
    /\ platform = "linux" => (hostOut <=> hostEnv.whichOk)
    /\ platform = "darwin" => (hostOut <=> hostEnv.appExists)

\* a whole package: the new payload, or the one installed before
CompletePayload(d) == d \in {PayloadA, OldInstall}

\* the file holds a version, as getCurrentVersion reads it
Records(vf) == vf.exists /\ trim(vf.content) # <<>>

\* C33: at the end of every run that began with InstallDirectory holding a
\* whole package whenever a version was recorded, successful or failed: if
\* VersionStore records a version then InstallDirectory holds a whole
\* package, never a missing or partially copied one.
C33_RecordedVersionMeansInstalled ==
  (pc = "exited" /\ OrchestratorRun
   /\ (Records(preVersion) => CompletePayload(preInstall)))
    => (Records(versionFile) => CompletePayload(installDir))

\* the archive a release designates: the one of its tag
ArchiveOf(tag) == [kind |-> "tag", name |-> tag]

\* C34: at the end of a run that resolved a release with a tag, installed
\* and recorded the version: VersionStore holds the tag of that release
\* and the archive that was requested, whose contents were installed, is
\* the one that release designates.
C34_ArchiveOfResolvedRelease ==
  (pc = "exited" /\ outcome \in {"Done", "PartiallyDone"}
   /\ stages = FullPipeline /\ Resolved /\ Truthy(seen.latest)
   /\ versionWrite = "ok")
    => /\ versionFile = VersionFileWith(seen.latest.val)
       /\ archiveLocator = ArchiveOf(seen.latest.val)

\* the release was resolved with a tag
ResolvedWithTag == Resolved /\ Truthy(seen.latest)

\* what the claim says VersionStore holds after an install
ExpectedRecord ==
  VersionFileWith(IF ResolvedWithTag THEN seen.latest.val ELSE LatestLiteral)

\* the run began with the placeholder in VersionStore
PlaceholderStored == preVersion = VersionFileWith(LatestLiteral)

\* the run has reported 'already up to date'
ReportedUpToDate == \E m \in reported : m.msg = "upToDate"

FollowingRun == runs > 1

C37_RunReachesTerminalOutcome ==
  (pc = "exited" /\ OrchestratorRun) =>
    \/ outcome \in {"Done", "PartiallyDone"} /\ exitCode = 0
    \/ /\ outcome = "FailedFatal" /\ exitCode = 1
       /\ Msg("installationFailed", Undefined) \in reported

\* C38: whenever no download of the bridge artifact is under way and the
\* file exists at its path, it holds the complete body of a successful
\* download; in particular the registration command is only ever run on
\* such a file, a failed download having left no file behind.
C38_BridgeFileComplete ==
  (pc # "bridgeDownload" /\ existsSync(bridgeFile))
    => bridgeFile = File("content")

====
